---- MODULE Spec2Model ----
(***************************************************************************)
(* The job lifecycle manager of CompChemJobServer.                         *)
(*                                                                         *)
(* The repository holds two managers: the program-agnostic one of          *)
(* src/job_server.py (programs qchem / orca / anything else, no delete     *)
(* route) and the ORCA-only package src/src/{manager,routes}.py (program   *)
(* forced to orca, with the IQmol routes, among them /delete).  The        *)
(* variable `variant` says which of the two a behaviour runs; it is fixed  *)
(* by Init.                                                                *)
(*                                                                         *)
(* Threads: one HTTP request thread per submission (submit_job), request   *)
(* threads for /delete and /api/health, and one worker thread per admitted *)
(* job (run_job).  A status query changes nothing: StatusReply is what it  *)
(* would answer in a state.  Every `with self.lock` block is one atomic    *)
(* action, except that of health_check, whose three reads are steps of     *)
(* their own that hold the lock; every unlocked write to a job dict that   *)
(* a status query can observe is a step of its own.                        *)
(*                                                                         *)
(* Two specifications share the actions.  Spec runs MaxJobs submissions    *)
(* in the plain environment (a subprocess writes stdout only and exits     *)
(* with 0 or 1 or times out; file operations succeed): it is the model of  *)
(* queueing, admission and the running count.  DetailSpec runs DetailJobs  *)
(* submissions in the full environment (any exit code, either stream       *)
(* empty or not, any program, every file operation may raise): it is the   *)
(* model of one job's run_job and collect_output_files.  Both also hold    *)
(* the behaviours of the health environment: HealthJobs submissions in     *)
(* the plain environment, with health requests served at any moment.       *)
(***************************************************************************)
EXTENDS Integers, Sequences, FiniteSets, TLC

\* ---------------------------------------------------------------- bounds
\* Number of submissions a behaviour makes in the plain environment (ids are
\* 1..MaxJobs, in the order in which submit_job is called).
MaxJobs == 2
\* Number of submissions a behaviour makes in the full environment.
DetailJobs == 1
\* Number of /delete requests a behaviour serves.
MaxDeletes == 1
\* Number of submissions a behaviour makes in the environment that also
\* sends health requests.
HealthJobs == 1
Ids == 1..MaxJobs

\* 'max_concurrent_jobs': 2 of load_config's defaults.
DefaultMaxConcurrentJobs == 2

\* The values of CONFIG['max_concurrent_jobs'] a behaviour may run with: the
\* default, and 1 (jobs strictly one at a time).
ConfiguredCeilings == {1, DefaultMaxConcurrentJobs}

\* Python's None, for the nullable fields of a job dict.
NULL == "None"
\* datetime.now().isoformat(): some timestamp, only its presence is modelled.
NOW == "ts"

Variants == {"job_server", "package"}

\* job_data.get('program', 'qchem').lower() in job_server.py; "other" stands
\* for every string that is neither 'qchem' nor 'orca'.
Programs == {"qchem", "orca", "other"}

\* result.returncode: 0, and two non-zero codes to tell one from the other.
ExitCodes == {0, 1, 2}

VARIABLES
    listing,              \* the list route: the submitted_at of the job dicts
                          \* and the reply of list_jobs_route
    health,               \* the health_check request: its position and the
                          \* fields of its `status` dict read so far
    env,                  \* the environment: "plain", "full" or "health"
    variant,              \* which manager runs
    max_concurrent_jobs,  \* CONFIG['max_concurrent_jobs']
    jobs,                 \* keys of self.jobs
    job,                  \* the job dicts, by id (run_job keeps its reference
                          \* to one after /delete popped it from self.jobs)
    job_queue,            \* self.job_queue
    running_jobs,         \* self.running_jobs
    cpc,                  \* position of the request thread of each submission
    wpc,                  \* position of the worker thread of each job
    result,               \* run_job's local `result` (subprocess.run's value)
    exc,                  \* the exception run_job's except clause is handling
    staged,               \* files of <job_dir>/output/<job_id>.{out,err}
    deletes,              \* /delete requests served so far
    appendOrder,          \* history: ids in the order job_queue.append ran
    admitOrder,           \* history: ids in the order process_queue popped them
    decCount \* history: times running_jobs was decremented per job

vars == <<listing, health, env, variant, max_concurrent_jobs, jobs, job, job_queue, running_jobs, cpc,
          wpc, result, exc, staged, deletes, appendOrder, admitOrder, decCount>>

\* ------------------------------------------------------------ job records
NoError == [kind |-> NULL, codes |-> {}]

NewJobSubmitted(program) ==
    [program      |-> program,
     status       |-> "submitted",
     started_at   |-> NULL,
     completed_at |-> NULL,
     error        |-> NoError,
     output_files |-> <<>>]

\* The dict literal of submit_job.
NewJob(program) ==
    [program      |-> program,
     status       |-> "queued",
     started_at   |-> NULL,
     completed_at |-> NULL,
     error        |-> NoError,
     output_files |-> <<>>]

ReturnCodeErrorNoCode(returncode) == [kind |-> "Return code", codes |-> {}]

\* f"Return code: {result.returncode}\nStdout:...\nStderr:...": the text
\* holds the exit code.
ReturnCodeError(returncode) == [kind |-> "Return code", codes |-> {returncode}]

\* 'Job execution timed out.'
TimeoutError == [kind |-> "Job execution timed out.", codes |-> {}]

\* str(e) of the exception caught by `except Exception as e`.
ExceptionError(e) == [kind |-> e, codes |-> {}]

\* run_job's view of its subprocess: not run yet, exited (with the exit code
\* and whether each captured stream is non-empty) or timed out; persisted
\* says that every staging file run_job writes from the streams was written.
NoResult ==
    [outcome |-> "none", returncode |-> 0, stdout |-> FALSE, stderr |-> FALSE,
     persisted |-> FALSE]

\* f"{job_id}.out", f"{job_id}.err", and a collectable scratch file.
OutName(job_id) == <<job_id, ".out">>
ErrName(job_id) == <<job_id, ".err">>
ScratchName(job_id) == <<job_id, ".gbw">>

TerminalStatus == {"completed", "failed"}

\* ------------------------------------------------------------------- Init
\* What the environment may do in a behaviour.
Submissions ==
    IF env = "full" THEN DetailJobs ELSE IF env = "health" THEN HealthJobs ELSE MaxJobs
EnvPrograms == IF env = "full" THEN Programs ELSE {"orca"}
EnvExitCodes == IF env = "full" THEN ExitCodes ELSE {0, 1}
EnvStdout == IF env = "full" THEN BOOLEAN ELSE {TRUE}
EnvStderr == IF env = "full" THEN BOOLEAN ELSE {FALSE}
EnvScratch == IF env = "full" THEN BOOLEAN ELSE {FALSE}
\* Whether a file operation (or the spawn) raises.
EnvRaises == IF env = "full" THEN BOOLEAN ELSE {FALSE}

\* health_check's `status` dict before any field is read.
NoHealth == [pc |-> "idle", running_jobs |-> 0, queued_jobs |-> 0, total_jobs |-> 0]

\* A datetime: the second and the microsecond of datetime.now() (the date,
\* the hour and the minute are the same for all).
Timestamps == [second : {9, 10}, microsecond : {0, 9, 10}]

\* The list route before a request: every submitted_at the same, no reply.
NoListing ==
    [submitted_at |-> [i \in Ids |-> [second |-> 9, microsecond |-> 0]],
     replied      |-> FALSE,
     reply        |-> <<>>]

InitIn(e) ==
    /\ env \in {e, "health"}
    /\ health = NoHealth
    /\ listing = NoListing
    /\ variant \in Variants
    /\ max_concurrent_jobs \in ConfiguredCeilings
    /\ jobs = {}
    /\ job = [i \in Ids |-> NewJob("orca")]
    /\ job_queue = <<>>
    /\ running_jobs = 0
    /\ cpc = [i \in Ids |-> "new"]
    /\ wpc = [i \in Ids |-> "none"]
    /\ result = [i \in Ids |-> NoResult]
    /\ exc = [i \in Ids |-> NULL]
    /\ staged = [i \in Ids |-> {}]
    /\ deletes = 0
    /\ appendOrder = <<>>
    /\ admitOrder = <<>>
    /\ decCount = [i \in Ids |-> 0]

Init == InitIn("plain")

DetailInit == InitIn("full")

\* ------------------------------------------------------- list operations
PeekAt(q, i) == q

\* list.pop(i), with i counted from 1: the list that is left.
RemoveAt(q, i) == SubSeq(q, 1, i - 1) \o SubSeq(q, i + 1, Len(q))

ListKeep(q, x) == q

ListRemoveLast(q, x) == SubSeq(q, 1, Len(q) - 1)

\* list.remove(x): drops the first occurrence of x.
ListRemove(q, x) ==
    LET i == CHOOSE k \in 1..Len(q) : q[k] = x /\ \A m \in 1..(k - 1) : q[m] # x
    IN  RemoveAt(q, i)

\* x in list
InList(q, x) == \E k \in 1..Len(q) : q[k] = x

\* ---------------------------------------------------------------- the lock
LockIgnored == TRUE

\* The positions of run_job from the launch of the subprocess to the end of
\* collect_output_files.
AtWork ==
    {"subprocess", "set_status", "collect_begin", "collect_main", "collect_scratch",
     "collect_err"}

LockHeldAtWork == health.pc = "idle" /\ \A i \in Ids : wpc[i] \notin AtWork

\* self.lock can be acquired: no thread is inside a `with self.lock` block.
\* Every such block but health_check's is one action, so that only a
\* health_check under way holds the lock from one state to the next.
LockFree == health.pc = "idle"

\* ---------------------------------------------------------- process_queue
AtCapacityOffByOne(running, ceiling) == running > ceiling

AtCapacityOneEarly(running, ceiling) == running >= ceiling - 1

\* `self.running_jobs >= CONFIG['max_concurrent_jobs']`
AtCapacity(running, ceiling) == running >= ceiling

PopLast(q) == Len(q)

\* The index `self.job_queue.pop(0)` takes, counted from 1.
PopIndex(q) == 1

\* process_queue(), called by a thread that leaves the workers' positions as
\* w: under the lock, return if at capacity or the queue is empty; else pop
\* the head and count it as running; then start its run_job thread.
ProcessQueue(w) ==
    /\ LockFree
    /\ IF AtCapacity(running_jobs, max_concurrent_jobs) \/ job_queue = <<>>
       THEN /\ wpc' = w
            /\ UNCHANGED <<job_queue, running_jobs, admitOrder>>
       ELSE LET job_id == job_queue[PopIndex(job_queue)]
            IN  /\ job_queue' = RemoveAt(job_queue, PopIndex(job_queue))
                /\ running_jobs' = running_jobs + 1
                /\ admitOrder' = Append(admitOrder, job_id)
                /\ wpc' = [w EXCEPT ![job_id] = "lookup"]

\* ------------------------------------------------------------- submit_job
\* The program a submission may carry: job_server.py takes it from the
\* request, the package hardcodes 'orca'.
SubmittablePrograms == IF variant = "job_server" THEN EnvPrograms ELSE {"orca"}

\* submit_job up to the lock: a fresh id, the job dict, the input file
\* written.  open()/write() raising leaves submit_job by the exception: the
\* route answers with an error and nothing is registered.
SubmitBegin(job_id) ==
    /\ cpc[job_id] = "new"
    /\ job_id <= Submissions
    /\ \A i \in Ids : i < job_id => cpc[i] # "new"
    /\ \E program \in SubmittablePrograms, raised \in EnvRaises :
          /\ job' = [job EXCEPT ![job_id] = NewJob(program)]
          /\ cpc' = [cpc EXCEPT ![job_id] = IF raised THEN "rejected" ELSE "register"]
    /\ UNCHANGED <<listing, health, env, variant, max_concurrent_jobs, jobs, job_queue, running_jobs, wpc,
                   result, exc, staged, deletes, appendOrder, admitOrder, decCount>>

Prepend(q, x) == <<x>> \o q

\* list.append(x)
ListAppend(q, x) == Append(q, x)

CanRegisterAfterFailure(pc) == pc \in {"register", "rejected"}

\* The lock block of submit_job is reached only by a request whose input
\* file was written: the `with open(...)` before it raising leaves submit_job.
CanRegister(pc) == pc = "register"

\* `with self.lock: self.jobs[job_id] = job; self.job_queue.append(job_id)`
SubmitRegister(job_id) ==
    /\ CanRegister(cpc[job_id])
    /\ LockFree
    /\ jobs' = jobs \cup {job_id}
    /\ job_queue' = ListAppend(job_queue, job_id)
    /\ appendOrder' = Append(appendOrder, job_id)
    /\ cpc' = [cpc EXCEPT ![job_id] = "dispatch"]
    /\ UNCHANGED <<listing, health, env, variant, max_concurrent_jobs, job, running_jobs, wpc, result, exc,
                   staged, deletes, admitOrder, decCount>>

\* `self.process_queue(); return job_id`
SubmitDispatch(job_id) ==
    /\ cpc[job_id] = "dispatch"
    /\ ProcessQueue(wpc)
    /\ cpc' = [cpc EXCEPT ![job_id] = "returned"]
    /\ UNCHANGED <<listing, health, env, variant, max_concurrent_jobs, jobs, job, result, exc, staged,
                   deletes, appendOrder, decCount>>

\* ---------------------------------------------------------- status route
\* What GET /api/status/<job_id> answers: the status field of a copy of the
\* job dict, or 404.
StatusReply(job_id) == IF job_id \in jobs THEN job[job_id].status ELSE "404"

\* ----------------------------------------------------------- delete route
\* iqmol_delete_job for a registered id (package only): under the lock, pop
\* the id from jobs and, if it is queued, remove it from job_queue.  A
\* running thread is not stopped.
DeleteJob(job_id) ==
    /\ variant = "package"
    /\ deletes < MaxDeletes
    /\ job_id \in jobs
    /\ LockFree
    /\ jobs' = jobs \ {job_id}
    /\ job_queue' = IF InList(job_queue, job_id) THEN ListRemove(job_queue, job_id)
                    ELSE job_queue
    /\ deletes' = deletes + 1
    /\ UNCHANGED <<listing, health, env, variant, max_concurrent_jobs, job, running_jobs, cpc, wpc, result,
                   exc, staged, appendOrder, admitOrder, decCount>>

\* ----------------------------------------------------------- health route
\* Everything but the health request.
others ==
    <<env, variant, max_concurrent_jobs, jobs, job, job_queue, running_jobs, cpc, wpc,
      result, exc, staged, deletes, appendOrder, admitOrder, decCount>>

\* health_check enters `with job_manager.lock`.
HealthAcquire ==
    /\ env = "health"
    /\ health.pc = "idle"
    /\ LockFree
    /\ health' = [health EXCEPT !.pc = "read_running"]
    /\ UNCHANGED <<listing, others>>

\* 'running_jobs': job_manager.running_jobs
HealthReadRunning ==
    /\ health.pc = "read_running"
    /\ health' = [health EXCEPT !.running_jobs = running_jobs, !.pc = "read_queued"]
    /\ UNCHANGED <<listing, others>>

\* 'queued_jobs': len(job_manager.job_queue)
HealthReadQueued ==
    /\ health.pc = "read_queued"
    /\ health' = [health EXCEPT !.queued_jobs = Len(job_queue), !.pc = "read_total"]
    /\ UNCHANGED <<listing, others>>

\* 'total_jobs': len(job_manager.jobs); the dict is complete.
HealthReadTotal ==
    /\ health.pc = "read_total"
    /\ health' = [health EXCEPT !.total_jobs = Cardinality(jobs), !.pc = "built"]
    /\ UNCHANGED <<listing, others>>

\* The lock is released and the dict sent: `return jsonify(status)`.
HealthReturn ==
    /\ health.pc = "built"
    /\ health' = NoHealth
    /\ UNCHANGED <<listing, others>>

\* ---------------------------------------------------------------- run_job
\* Start of the thread: `job = self.jobs[job_id]` stands before the try, so a
\* KeyError (the id was deleted since it was popped) ends the thread with
\* neither the except clauses nor the finally clause run.  Otherwise
\* `job['status'] = 'running'`.
RunJobStart(job_id) ==
    /\ wpc[job_id] = "lookup"
    /\ IF job_id \in jobs
       THEN /\ job' = [job EXCEPT ![job_id].status = "running"]
            /\ wpc' = [wpc EXCEPT ![job_id] = "started_at"]
       ELSE /\ wpc' = [wpc EXCEPT ![job_id] = "crashed"]
            /\ UNCHANGED job
    /\ UNCHANGED <<listing, health, env, variant, max_concurrent_jobs, jobs, job_queue, running_jobs, cpc,
                   result, exc, staged, deletes, appendOrder, admitOrder, decCount>>

\* `job['started_at'] = datetime.now().isoformat()`
SetStartedAt(job_id) ==
    /\ wpc[job_id] = "started_at"
    /\ job' = [job EXCEPT ![job_id].started_at = NOW]
    /\ wpc' = [wpc EXCEPT ![job_id] = "prepare"]
    /\ UNCHANGED <<listing, health, env, variant, max_concurrent_jobs, jobs, job_queue, running_jobs, cpc,
                   result, exc, staged, deletes, appendOrder, admitOrder, decCount>>

SupportedAny(v, program) == TRUE

\* Whether run_job builds a command for the program: job_server.py raises
\* ValueError for anything but qchem and orca; the package has no such test.
Supported(v, program) == v = "package" \/ program \in {"qchem", "orca"}

\* From scratch_dir.mkdir to the launch of subprocess.run: the scratch
\* directory, the copy of the input (orca), the command, the spawn.  Each of
\* the file operations and the spawn may raise OSError.
Prepare(job_id) ==
    /\ wpc[job_id] = "prepare"
    /\ \E raised \in EnvRaises :
          IF raised
          THEN /\ exc' = [exc EXCEPT ![job_id] = "OSError"]
               /\ wpc' = [wpc EXCEPT ![job_id] = "except_status"]
          ELSE IF ~Supported(variant, job[job_id].program)
          THEN /\ exc' = [exc EXCEPT ![job_id] = "Unsupported program"]
               /\ wpc' = [wpc EXCEPT ![job_id] = "except_status"]
          ELSE /\ wpc' = [wpc EXCEPT ![job_id] = "subprocess"]
               /\ UNCHANGED exc
    /\ UNCHANGED <<listing, health, env, variant, max_concurrent_jobs, jobs, job, job_queue, running_jobs,
                   cpc, result, staged, deletes, appendOrder, admitOrder, decCount>>

\* The staging files run_job itself writes from the captured streams, in the
\* order it writes them.  job_server.py: only for orca and only if stdout is
\* non-empty, the .err file nested under that test.  Package: each stream on
\* its own.
StreamFiles(v, program, stdout, stderr) ==
    IF v = "job_server"
    THEN IF program = "orca" /\ stdout
         THEN <<"out">> \o (IF stderr THEN <<"err">> ELSE <<>>)
         ELSE <<>>
    ELSE (IF stdout THEN <<"out">> ELSE <<>>) \o (IF stderr THEN <<"err">> ELSE <<>>)

\* subprocess.run returns: any exit code, stdout and stderr empty or not; a
\* qchem process has or has not written the output file it was given.  Then
\* the streams are persisted; a write raising OSError leaves the files
\* written before it.
SubprocessExit(job_id) ==
    /\ wpc[job_id] = "subprocess"
    /\ \E returncode \in EnvExitCodes, stdout \in EnvStdout, stderr \in EnvStderr,
          wrote \in BOOLEAN :
          LET program == job[job_id].program
              files   == StreamFiles(variant, program, stdout, stderr)
              byProgram == IF program = "qchem" /\ wrote THEN {"out"} ELSE {}
          IN  \E n \in 0..Len(files) :
                 /\ (program # "qchem" => ~wrote)
                 /\ (n < Len(files) => TRUE \in EnvRaises)
                 /\ result' = [result EXCEPT ![job_id] =
                                  [outcome |-> "exit", returncode |-> returncode,
                                   stdout |-> stdout, stderr |-> stderr,
                                   persisted |-> n = Len(files)]]
                 /\ staged' = [staged EXCEPT ![job_id] =
                                  byProgram \cup {files[k] : k \in 1..n}]
                 /\ IF n = Len(files)
                    THEN /\ wpc' = [wpc EXCEPT ![job_id] = "set_status"]
                         /\ UNCHANGED exc
                    ELSE /\ exc' = [exc EXCEPT ![job_id] = "OSError"]
                         /\ wpc' = [wpc EXCEPT ![job_id] = "except_status"]
    /\ UNCHANGED <<listing, health, env, variant, max_concurrent_jobs, jobs, job, job_queue, running_jobs,
                   cpc, deletes, appendOrder, admitOrder, decCount>>

\* subprocess.run raises TimeoutExpired after 3600 s.
SubprocessTimeout(job_id) ==
    /\ wpc[job_id] = "subprocess"
    /\ result' = [result EXCEPT ![job_id].outcome = "timeout"]
    /\ exc' = [exc EXCEPT ![job_id] = "TimeoutExpired"]
    /\ wpc' = [wpc EXCEPT ![job_id] = "except_status"]
    /\ UNCHANGED <<listing, health, env, variant, max_concurrent_jobs, jobs, job, job_queue, running_jobs,
                   cpc, staged, deletes, appendOrder, admitOrder, decCount>>

StatusForUnset(returncode) == IF returncode = 0 THEN "completed" ELSE "running"

\* `if result.returncode == 0: job['status'] = 'completed' ... else:
\* job['status'] = 'failed'`
StatusFor(returncode) == IF returncode = 0 THEN "completed" ELSE "failed"

SetStatus(job_id) ==
    /\ wpc[job_id] = "set_status"
    /\ job' = [job EXCEPT ![job_id].status = StatusFor(result[job_id].returncode)]
    /\ wpc' = [wpc EXCEPT ![job_id] =
                  IF StatusFor(result[job_id].returncode) = "completed"
                  THEN "collect_begin" ELSE "set_error"]
    /\ UNCHANGED <<listing, health, env, variant, max_concurrent_jobs, jobs, job_queue, running_jobs, cpc,
                   result, exc, staged, deletes, appendOrder, admitOrder, decCount>>

\* `job['error'] = error_message`
SetError(job_id) ==
    /\ wpc[job_id] = "set_error"
    /\ job' = [job EXCEPT ![job_id].error = ReturnCodeError(result[job_id].returncode)]
    /\ wpc' = [wpc EXCEPT ![job_id] = "completed_at"]
    /\ UNCHANGED <<listing, health, env, variant, max_concurrent_jobs, jobs, job_queue, running_jobs, cpc,
                   result, exc, staged, deletes, appendOrder, admitOrder, decCount>>

\* `job['completed_at'] = datetime.now().isoformat()` at the end of the try.
SetCompletedAt(job_id) ==
    /\ wpc[job_id] = "completed_at"
    /\ job' = [job EXCEPT ![job_id].completed_at = NOW]
    /\ wpc' = [wpc EXCEPT ![job_id] = "finally_dec"]
    /\ UNCHANGED <<listing, health, env, variant, max_concurrent_jobs, jobs, job_queue, running_jobs, cpc,
                   result, exc, staged, deletes, appendOrder, admitOrder, decCount>>

\* --------------------------------------------------- collect_output_files
\* An exception leaving collect_output_files lands in run_job's
\* `except Exception`.
Raise(job_id, e) ==
    /\ exc' = [exc EXCEPT ![job_id] = e]
    /\ wpc' = [wpc EXCEPT ![job_id] = "except_status"]

\* `output_job_dir.mkdir(...)` (may raise OSError), `job = self.jobs[job_id]`
\* (KeyError once the id was deleted), `job['output_files'] = []`.
CollectBegin(job_id) ==
    /\ wpc[job_id] = "collect_begin"
    /\ \E made \in {~r : r \in EnvRaises} :
          IF ~made
          THEN Raise(job_id, "OSError") /\ UNCHANGED job
          ELSE IF job_id \notin jobs
          THEN Raise(job_id, "KeyError") /\ UNCHANGED job
          ELSE /\ job' = [job EXCEPT ![job_id].output_files = <<>>]
               /\ wpc' = [wpc EXCEPT ![job_id] = "collect_main"]
               /\ UNCHANGED exc
    /\ UNCHANGED <<listing, health, env, variant, max_concurrent_jobs, jobs, job_queue, running_jobs, cpc,
                   result, staged, deletes, appendOrder, admitOrder, decCount>>

\* `if main_output_file_src.exists(): shutil.move(...); append f"{job_id}.out"`
\* The move is not guarded: it may raise OSError.
CollectMain(job_id) ==
    /\ wpc[job_id] = "collect_main"
    /\ IF "out" \in staged[job_id]
       THEN \E moved \in {~r : r \in EnvRaises} :
               IF moved
               THEN /\ staged' = [staged EXCEPT ![job_id] = @ \ {"out"}]
                    /\ job' = [job EXCEPT ![job_id].output_files =
                                  Append(@, OutName(job_id))]
                    /\ wpc' = [wpc EXCEPT ![job_id] = "collect_scratch"]
                    /\ UNCHANGED exc
               ELSE Raise(job_id, "OSError") /\ UNCHANGED <<job, staged>>
       ELSE /\ wpc' = [wpc EXCEPT ![job_id] = "collect_scratch"]
            /\ UNCHANGED <<job, staged, exc>>
    /\ UNCHANGED <<listing, health, env, variant, max_concurrent_jobs, jobs, job_queue, running_jobs, cpc,
                   result, deletes, appendOrder, admitOrder, decCount>>

\* The loop over the scratch directory, for one file with a collected
\* extension that the subprocess has or has not left there: the copy is
\* guarded, a failure is printed and the file skipped.
CollectScratch(job_id) ==
    /\ wpc[job_id] = "collect_scratch"
    /\ \E present \in EnvScratch, raised \in EnvRaises :
          job' = [job EXCEPT ![job_id].output_files =
                     IF present /\ ~raised THEN Append(@, ScratchName(job_id)) ELSE @]
    /\ wpc' = [wpc EXCEPT ![job_id] = "collect_err"]
    /\ UNCHANGED <<listing, health, env, variant, max_concurrent_jobs, jobs, job_queue, running_jobs, cpc,
                   result, exc, staged, deletes, appendOrder, admitOrder, decCount>>

\* `if orca_err_file_src.exists(): shutil.move(...); append f"{job_id}.err"`
CollectErr(job_id) ==
    /\ wpc[job_id] = "collect_err"
    /\ IF "err" \in staged[job_id]
       THEN \E moved \in {~r : r \in EnvRaises} :
               IF moved
               THEN /\ staged' = [staged EXCEPT ![job_id] = @ \ {"err"}]
                    /\ job' = [job EXCEPT ![job_id].output_files =
                                  Append(@, ErrName(job_id))]
                    /\ wpc' = [wpc EXCEPT ![job_id] = "completed_at"]
                    /\ UNCHANGED exc
               ELSE Raise(job_id, "OSError") /\ UNCHANGED <<job, staged>>
       ELSE /\ wpc' = [wpc EXCEPT ![job_id] = "completed_at"]
            /\ UNCHANGED <<job, staged, exc>>
    /\ UNCHANGED <<listing, health, env, variant, max_concurrent_jobs, jobs, job_queue, running_jobs, cpc,
                   result, deletes, appendOrder, admitOrder, decCount>>

\* ------------------------------------------------ run_job: except, finally
\* `job['status'] = 'failed'` of either except clause.
ExceptStatus(job_id) ==
    /\ wpc[job_id] = "except_status"
    /\ job' = [job EXCEPT ![job_id].status = "failed"]
    /\ wpc' = [wpc EXCEPT ![job_id] = "except_error"]
    /\ UNCHANGED <<listing, health, env, variant, max_concurrent_jobs, jobs, job_queue, running_jobs, cpc,
                   result, exc, staged, deletes, appendOrder, admitOrder, decCount>>

ErrorForAny(e) == ExceptionError(e)

\* The error text of the except clause that caught e.
ErrorFor(e) == IF e = "TimeoutExpired" THEN TimeoutError ELSE ExceptionError(e)

\* `job['error'] = ...`
ExceptError(job_id) ==
    /\ wpc[job_id] = "except_error"
    /\ job' = [job EXCEPT ![job_id].error = ErrorFor(exc[job_id])]
    /\ exc' = [exc EXCEPT ![job_id] = NULL]
    /\ wpc' = [wpc EXCEPT ![job_id] = "except_completed_at"]
    /\ UNCHANGED <<listing, health, env, variant, max_concurrent_jobs, jobs, job_queue, running_jobs, cpc,
                   result, staged, deletes, appendOrder, admitOrder, decCount>>

\* `job['completed_at'] = datetime.now().isoformat()` of the except clause.
ExceptCompletedAt(job_id) ==
    /\ wpc[job_id] = "except_completed_at"
    /\ job' = [job EXCEPT ![job_id].completed_at = NOW]
    /\ wpc' = [wpc EXCEPT ![job_id] = "finally_dec"]
    /\ UNCHANGED <<listing, health, env, variant, max_concurrent_jobs, jobs, job_queue, running_jobs, cpc,
                   result, exc, staged, deletes, appendOrder, admitOrder, decCount>>

\* `with self.lock: self.running_jobs -= 1`
FinallyDecrement(job_id) ==
    /\ wpc[job_id] = "finally_dec"
    /\ LockFree
    /\ running_jobs' = running_jobs - 1
    /\ decCount' = [decCount EXCEPT ![job_id] = @ + 1]
    /\ wpc' = [wpc EXCEPT ![job_id] = "finally_dispatch"]
    /\ UNCHANGED <<listing, health, env, variant, max_concurrent_jobs, jobs, job, job_queue, cpc, result,
                   exc, staged, deletes, appendOrder, admitOrder>>

\* `self.process_queue()` of the finally clause; the thread ends.  (No code
\* reads the staging files of a job again: they leave the model here.)
FinallyDispatch(job_id) ==
    /\ wpc[job_id] = "finally_dispatch"
    /\ ProcessQueue([wpc EXCEPT ![job_id] = "done"])
    /\ staged' = [staged EXCEPT ![job_id] = {}]
    /\ UNCHANGED <<listing, health, env, variant, max_concurrent_jobs, jobs, job, cpc, result, exc,
                   deletes, appendOrder, decCount>>

\* ------------------------------------------------------------- list route
\* The decimal digits of n, as code points ('0' is 48), without padding.
RECURSIVE Decimal(_)
Decimal(n) == IF n < 10 THEN <<48 + n>> ELSE Append(Decimal(n \div 10), 48 + (n % 10))

\* The decimal digits of n padded with zeros to `width` characters.
RECURSIVE Digits(_, _)
Digits(n, width) ==
    IF width = 0 THEN <<>> ELSE Append(Digits(n \div 10, width - 1), 48 + (n % 10))

IsoformatUnpadded(t) ==
    Decimal(t.second) \o
    (IF t.microsecond = 0 THEN <<>> ELSE <<46>> \o Decimal(t.microsecond))

\* datetime.isoformat(), from the seconds on: two digits of seconds, then
\* '.' (code point 46) and six digits of microseconds unless the
\* microsecond is 0.
Isoformat(t) ==
    Digits(t.second, 2) \o
    (IF t.microsecond = 0 THEN <<>> ELSE <<46>> \o Digits(t.microsecond, 6))

\* a < b of two Python strings: by code points, a proper prefix first.
RECURSIVE StrLess(_, _)
StrLess(a, b) ==
    IF a = <<>> THEN b # <<>>
    ELSE IF b = <<>> THEN FALSE
    ELSE IF Head(a) = Head(b) THEN StrLess(Tail(a), Tail(b))
    ELSE Head(a) < Head(b)

\* The whole job dict of submit_job, with the fields the rest of the model
\* leaves out.
JobDict(job_id) ==
    [id            |-> job_id,
     name          |-> <<"job_", job_id>>,
     program       |-> job[job_id].program,
     input_content |-> "input",
     status        |-> job[job_id].status,
     submitted_at  |-> Isoformat(listing.submitted_at[job_id]),
     started_at    |-> job[job_id].started_at,
     completed_at  |-> job[job_id].completed_at,
     error         |-> job[job_id].error,
     output_files  |-> job[job_id].output_files]

\* job_manager.jobs.values(): the dicts of the registered ids, here in the
\* order of the ids.
RECURSIVE Values(_)
Values(S) ==
    IF S = {} THEN <<>>
    ELSE LET last == CHOOSE i \in S : \A k \in S : k <= i
         IN  Append(Values(S \ {last}), JobDict(last))

\* `key=lambda j: j['submitted_at']`
SortKey(d) == d.submitted_at

\* One element put into a list sorted with reverse=True: behind every element
\* whose key is not smaller (the sort is stable).
RECURSIVE InsertReverse(_, _)
InsertReverse(q, d) ==
    IF q = <<>> THEN <<d>>
    ELSE IF StrLess(SortKey(Head(q)), SortKey(d)) THEN <<d>> \o q
    ELSE <<Head(q)>> \o InsertReverse(Tail(q), d)

\* sorted(..., key=..., reverse=True)
RECURSIVE SortedReverse(_)
SortedReverse(q) ==
    IF q = <<>> THEN <<>>
    ELSE InsertReverse(SortedReverse(SubSeq(q, 1, Len(q) - 1)), q[Len(q)])

\* job_summary
JobSummary(d) ==
    [id           |-> d.id,
     name         |-> d.name,
     program      |-> d.program,
     status       |-> d.status,
     submitted_at |-> d.submitted_at,
     started_at   |-> d.started_at,
     completed_at |-> d.completed_at]

\* list_jobs_route: the summaries of the sorted dicts.
ListJobs ==
    /\ env = "list"
    /\ ~listing.replied
    /\ LET sorted_jobs == SortedReverse(Values(jobs))
       IN  listing' = [listing EXCEPT
                          !.replied = TRUE,
                          !.reply = [k \in 1..Len(sorted_jobs) |-> JobSummary(sorted_jobs[k])]]
    /\ UNCHANGED <<health, others>>

\* The registry as the list route may find it: any set of ids registered,
\* their jobs ended, with any submitted_at; an id that is not registered was
\* not submitted, or was deleted.
ListInit ==
    /\ env = "list"
    /\ health = NoHealth
    /\ listing \in [submitted_at : [Ids -> Timestamps], replied : {FALSE}, reply : {<<>>}]
    /\ variant \in Variants
    /\ max_concurrent_jobs \in ConfiguredCeilings
    /\ jobs \in SUBSET Ids
    /\ job = [i \in Ids |->
                IF i \in jobs
                THEN [NewJob("orca") EXCEPT !.status = "completed", !.started_at = NOW,
                                            !.completed_at = NOW]
                ELSE NewJob("orca")]
    /\ job_queue = <<>>
    /\ running_jobs = 0
    /\ cpc = [i \in Ids |-> IF i \in jobs THEN "returned" ELSE "new"]
    /\ wpc = [i \in Ids |-> IF i \in jobs THEN "done" ELSE "none"]
    /\ result = [i \in Ids |-> NoResult]
    /\ exc = [i \in Ids |-> NULL]
    /\ staged = [i \in Ids |-> {}]
    /\ deletes = 0
    /\ appendOrder = <<>>
    /\ admitOrder = <<>>
    /\ decCount = [i \in Ids |-> 0]

ListNext == ListJobs

ListSpec == ListInit /\ [][ListNext]_vars

\* ------------------------------------------------------------------- Next
\* One step of the request thread of a submission that is under way.
Client(job_id) ==
    \/ SubmitRegister(job_id)
    \/ SubmitDispatch(job_id)

\* One step of the run_job thread of a job.
Worker(job_id) ==
    \/ RunJobStart(job_id)
    \/ SetStartedAt(job_id)
    \/ Prepare(job_id)
    \/ SubprocessExit(job_id)
    \/ SubprocessTimeout(job_id)
    \/ SetStatus(job_id)
    \/ SetError(job_id)
    \/ SetCompletedAt(job_id)
    \/ CollectBegin(job_id)
    \/ CollectMain(job_id)
    \/ CollectScratch(job_id)
    \/ CollectErr(job_id)
    \/ ExceptStatus(job_id)
    \/ ExceptError(job_id)
    \/ ExceptCompletedAt(job_id)
    \/ FinallyDecrement(job_id)
    \/ FinallyDispatch(job_id)

\* A health request that has begun.
HealthUnderWay ==
    \/ HealthReadRunning
    \/ HealthReadQueued
    \/ HealthReadTotal
    \/ HealthReturn

\* One step of a health request.
Health == HealthAcquire \/ HealthUnderWay

Next ==
    \/ \E job_id \in Ids :
          \/ SubmitBegin(job_id)
          \/ Client(job_id)
          \/ Worker(job_id)
          \/ DeleteJob(job_id)
    \/ Health

Spec == Init /\ [][Next]_vars

\* Every thread that has a step to take takes it in the end: started request
\* threads and worker threads are scheduled, and a subprocess exits or hits
\* the timeout.  A thread that waits for the lock gets it in the end, however
\* often health requests take it (strong fairness).  New requests
\* (submissions, deletes, health requests) are not obliged to come.
Fairness ==
    /\ \A job_id \in Ids : SF_vars(Client(job_id)) /\ SF_vars(Worker(job_id))
    /\ WF_vars(HealthUnderWay)

FairSpec == Spec /\ Fairness

DetailSpec == DetailInit /\ [][Next]_vars

\* ------------------------------------------------------------ the claims
\* A job dict's status was set to 'running' at some time.
Started(job_id) == job[job_id].status # "queued"

Terminal(job_id) == job[job_id].status \in TerminalStatus

\* The place of x in a list that holds it.
Position(q, x) == CHOOSE k \in 1..Len(q) : q[k] = x

IsAscending(q) == \A k \in 1..(Len(q) - 1) : q[k] < q[k + 1]

\* C1: in every reachable state running_jobs is at most max_concurrent_jobs,
\* and so are the number of job dicts whose status is 'running' and the
\* number of subprocesses executing.
C1_RunningWithinCeiling ==
    /\ running_jobs <= max_concurrent_jobs
    /\ Cardinality({i \in Ids : job[i].status = "running"}) <= max_concurrent_jobs
    /\ Cardinality({i \in Ids : wpc[i] = "subprocess"}) <= max_concurrent_jobs

\* The ceiling is reached by executing subprocesses while a job waits.
C1_Witness ==
    /\ Cardinality({i \in Ids : wpc[i] = "subprocess" /\ job[i].status = "running"})
          = max_concurrent_jobs
    /\ running_jobs = max_concurrent_jobs
    /\ job_queue # <<>>

\* C2: admission is FIFO relative to the queue: of two admitted jobs, the one
\* whose id was appended to job_queue first was popped (and counted as
\* running) first.
C2_FifoAdmission ==
    \A a, b \in 1..Len(admitOrder) :
        a < b => Position(appendOrder, admitOrder[a]) < Position(appendOrder, admitOrder[b])

\* Two jobs, appended in the order opposite to that of their submit_job
\* calls, have both been admitted.
C2_Witness == appendOrder = <<2, 1>> /\ Len(admitOrder) = 2

\* C3: with max_concurrent_jobs = 1 and the jobs queued in the order of their
\* submit_job calls, jobs run one at a time and in that order: once a job
\* has started, no job submitted before it still waits in the queue, and
\* every job submitted before it that has started has a terminal status.
C3_OneAtATimeInOrder ==
    (max_concurrent_jobs = 1 /\ IsAscending(appendOrder)) =>
        \A a, b \in Ids :
            (a < b /\ Started(b)) =>
                /\ ~InList(job_queue, a)
                /\ (Started(a) => Terminal(a))

\* Under a ceiling of 1, the second job runs after the first has ended.
C3_Witness ==
    /\ max_concurrent_jobs = 1
    /\ appendOrder = <<1, 2>>
    /\ admitOrder = <<1, 2>>
    /\ Terminal(1) /\ wpc[1] = "done"
    /\ job[2].status = "running"

\* submit_job has returned to the client of job_id.
Returned(job_id) == cpc[job_id] = "returned"

\* The positions of run_job before it has written a terminal status.
BeforeTerminalWrite ==
    {"none", "lookup", "crashed", "started_at", "prepare", "subprocess", "set_status"}

\* C4 as claimed: a status query issued by the client after submit_job
\* returned, for a job that is still registered, answers 'queued' or
\* 'running', never 'completed' or 'failed'.
C4_QueuedOrRunningAfterSubmit ==
    \A i \in Ids :
        (Returned(i) /\ i \in jobs) => StatusReply(i) \in {"queued", "running"}

\* C4 as amended: such a query answers one of the four statuses; 'queued'
\* as long as the job waits in job_queue, and 'completed' or 'failed' only
\* once the job's run_job has got past its subprocess and written a
\* terminal status.
C4_StatusAfterSubmit ==
    \A i \in Ids :
        (Returned(i) /\ i \in jobs) =>
            /\ StatusReply(i) \in {"queued", "running", "completed", "failed"}
            /\ (InList(job_queue, i) => StatusReply(i) = "queued")
            /\ (StatusReply(i) \in TerminalStatus => wpc[i] \notin BeforeTerminalWrite)

\* submit_job has returned and the job has already completed.
C4_Witness ==
    \E i \in Ids : Returned(i) /\ i \in jobs /\ StatusReply(i) = "completed"

\* C5: every registered job that is never deleted eventually has status
\* 'completed' or 'failed' and a non-null completed_at (under Fairness).
C5_EventuallyTerminal ==
    \A i \in Ids :
        (i \in jobs) ~>
            (i \notin jobs \/ (Terminal(i) /\ job[i].completed_at # NULL))

\* run_job of job_id has ended by a failure: it raised out of the thread, or
\* it returned with the job failed.
RunJobFailed(job_id) ==
    \/ wpc[job_id] = "crashed"
    \/ wpc[job_id] = "done" /\ job[job_id].status = "failed"

\* C6: a per-job failure never stops dispatch: once the failing job's run_job
\* has ended, running_jobs has been decremented for it (and process_queue
\* called), so that the jobs still queued can be admitted.
C6_FailureReleasesSlot ==
    \A i \in Ids : RunJobFailed(i) => decCount[i] = 1

TimedOut(job_id) == result[job_id].outcome = "timeout"

Exited(job_id) == result[job_id].outcome = "exit"

\* C7: a job whose subprocess exceeds the deadline ends 'failed' with the
\* error 'Job execution timed out.', and running_jobs is decremented exactly
\* once for it (never twice for any job).
C7_TimeoutFailsOnce ==
    \A i \in Ids :
        /\ decCount[i] <= 1
        /\ (TimedOut(i) /\ wpc[i] = "done") =>
              /\ job[i].status = "failed"
              /\ job[i].error = TimeoutError
              /\ decCount[i] = 1

\* The run_job of a timed-out job has ended.
C7_Witness == \E i \in Ids : TimedOut(i) /\ wpc[i] = "done"

\* C8: a job whose subprocess exits with code 0 ends 'completed' with
\* '<job_id>.out' among its output_files, whatever the program and the
\* streams.
C8_ExitZeroCompletes ==
    \A i \in Ids :
        (Exited(i) /\ result[i].returncode = 0 /\ wpc[i] = "done") =>
            /\ job[i].status = "completed"
            /\ InList(job[i].output_files, OutName(i))

\* C9 as claimed: a job whose subprocess exits with a non-zero code ends
\* 'failed' with an error text that holds that exit code.
C9_NonZeroExitCode ==
    \A i \in Ids :
        (Exited(i) /\ result[i].returncode # 0 /\ wpc[i] = "done") =>
            /\ job[i].status = "failed"
            /\ result[i].returncode \in job[i].error.codes

\* C9 as amended: such a job ends 'failed'; its error text holds the exit
\* code, unless writing the captured streams to the staging files raised:
\* then the error is that exception's message.
C9_NonZeroExitCodeUnlessPersistRaised ==
    \A i \in Ids :
        (Exited(i) /\ result[i].returncode # 0 /\ wpc[i] = "done") =>
            /\ job[i].status = "failed"
            /\ IF result[i].persisted
               THEN /\ job[i].error.kind = "Return code"
                    /\ job[i].error.codes = {result[i].returncode}
               ELSE job[i].error = [kind |-> "OSError", codes |-> {}]

\* A job has ended after its subprocess exited with code 2 and its streams
\* were persisted.
C9_Witness ==
    \E i \in Ids :
        Exited(i) /\ result[i].returncode = 2 /\ result[i].persisted /\ wpc[i] = "done"

StatusTransitions ==
    {<<"queued", "running">>, <<"running", "completed">>, <<"running", "failed">>}

\* C10: a job's status changes only along queued -> running, running ->
\* completed and running -> failed; 'completed' and 'failed' are final.
C10_StatusTransitions ==
    [][\A i \in Ids :
          job'[i].status # job[i].status =>
              <<job[i].status, job'[i].status>> \in StatusTransitions]_vars

\* A status query can observe the job dict of job_id.
Observable(job_id) == job_id \in jobs

\* C11: in every state a status query can observe, a job's started_at is
\* null if and only if its status is 'queued'.
C11_StartedAtIffNotQueued ==
    \A i \in Ids :
        Observable(i) => (job[i].started_at = NULL <=> job[i].status = "queued")

\* C12: in every state a status query can observe, a job's completed_at is
\* non-null if and only if its status is 'completed' or 'failed'.
C12_CompletedAtIffTerminal ==
    \A i \in Ids :
        Observable(i) => (job[i].completed_at # NULL <=> Terminal(i))

\* C13: in every reachable state, a job's error is non-null only if its
\* status is 'failed'.
C13_ErrorOnlyIfFailed ==
    \A i \in Ids : job[i].error # NoError => job[i].status = "failed"

\* A job went from 'completed' to 'failed' because collecting its files
\* raised, and the except clause has written its error.
C13_Witness ==
    \E i \in Ids :
        /\ Exited(i) /\ result[i].returncode = 0 /\ result[i].persisted
        /\ job[i].error # NoError

\* Writing the input file of job_id raised: submit_job was left by the
\* exception.
Rejected(job_id) == cpc[job_id] = "rejected"

\* C14: if writing the input file fails during submit_job, the job is not
\* registered: the failing step leaves jobs, job_queue and running_jobs (and
\* every worker) as they were, the request never goes on to register or
\* dispatch, and the id is never in jobs or job_queue, nor admitted.
C14_WriteFailureNotRegistered ==
    /\ [](\A i \in Ids :
            Rejected(i) =>
                /\ i \notin jobs
                /\ ~InList(job_queue, i)
                /\ ~InList(admitOrder, i)
                /\ wpc[i] = "none")
    /\ [][\A i \in Ids :
            (~Rejected(i) /\ Rejected(i)') =>
                UNCHANGED <<jobs, job_queue, running_jobs, wpc>>]_vars
    /\ [][\A i \in Ids : Rejected(i) => Rejected(i)']_vars

\* A submission has failed on its input file.
C14_Witness == \E i \in Ids : Rejected(i) /\ job[i].status = "queued"

\* What health_check would report of the registry in the current state.
Registry ==
    [running_jobs |-> running_jobs,
     queued_jobs  |-> Len(job_queue),
     total_jobs   |-> Cardinality(jobs)]

\* The three numbers of the `status` dict health_check has built.
Reported ==
    [running_jobs |-> health.running_jobs,
     queued_jobs  |-> health.queued_jobs,
     total_jobs   |-> health.total_jobs]

\* C15: the three numbers of a health response were all true of the registry
\* at one instant of the request: in the state in which the dict is complete
\* (the lock still held) they are the registry's values, and each value read
\* earlier in the request is still the registry's.
C15_HealthSnapshotAtOneInstant ==
    /\ health.pc = "built" => Reported = Registry
    /\ health.pc \in {"read_queued", "read_total"} => health.running_jobs = running_jobs
    /\ health.pc = "read_total" => health.queued_jobs = Len(job_queue)

\* A health response is complete while a job runs, and a worker thread is
\* at a write it does without the lock.
C15_Witness ==
    /\ health.pc = "built"
    /\ Reported.running_jobs = 1 /\ Reported.total_jobs = 1
    /\ \E i \in Ids : wpc[i] \in {"started_at", "set_status", "collect_main"}

\* t1 is an earlier time than t2.
Earlier(t1, t2) ==
    \/ t1.second < t2.second
    \/ t1.second = t2.second /\ t1.microsecond < t2.microsecond

\* The registered jobs have distinct submitted_at values.
DistinctSubmittedAt ==
    \A a, b \in jobs : a # b => listing.submitted_at[a] # listing.submitted_at[b]

\* C16: for registered jobs with distinct submitted_at values, the job list
\* holds each registered job exactly once, later submissions strictly before
\* earlier ones, and no summary has the key input_content.
C16_ListNewestFirst ==
    (listing.replied /\ DistinctSubmittedAt) =>
        /\ Len(listing.reply) = Cardinality(jobs)
        /\ {listing.reply[k].id : k \in 1..Len(listing.reply)} = jobs
        /\ \A k, m \in 1..Len(listing.reply) :
              k < m => Earlier(listing.submitted_at[listing.reply[m].id],
                               listing.submitted_at[listing.reply[k].id])
        /\ \A k \in 1..Len(listing.reply) :
              "input_content" \notin DOMAIN listing.reply[k]

\* Two jobs were listed, one submitted in second 9 and one in second 10.
C16_Witness ==
    /\ listing.replied
    /\ DistinctSubmittedAt
    /\ \E a, b \in jobs :
          listing.submitted_at[a].second = 9 /\ listing.submitted_at[b].second = 10

\* The program-agnostic manager runs a job whose program it does not know.
Unsupported(job_id) ==
    /\ variant = "job_server"
    /\ job[job_id].program \notin {"qchem", "orca"}
    /\ wpc[job_id] # "none"

\* No subprocess was spawned for job_id, and its thread is not at the spawn
\* or behind it on the route of a subprocess that returned.
NeverSpawned(job_id) ==
    /\ result[job_id].outcome = "none"
    /\ wpc[job_id] \notin {"subprocess", "set_status", "set_error", "completed_at"}

\* C17 as claimed: in the program-agnostic manager a job whose program is
\* neither 'qchem' nor 'orca' ends 'failed' with an error that names the
\* unsupported program, with no subprocess spawned and its slot released.
C17_UnsupportedProgramFails ==
    \A i \in Ids :
        Unsupported(i) =>
            /\ NeverSpawned(i)
            /\ wpc[i] = "done" =>
                  /\ job[i].status = "failed"
                  /\ job[i].error = [kind |-> "Unsupported program", codes |-> {}]
                  /\ decCount[i] = 1

\* C17 as amended: such a job ends 'failed' with no subprocess spawned and
\* its slot released; its error names the unsupported program, unless
\* creating the scratch directory raised before the program was looked at:
\* then the error is that exception's message.
C17_UnsupportedProgramFailsUnlessMkdirRaised ==
    \A i \in Ids :
        Unsupported(i) =>
            /\ NeverSpawned(i)
            /\ wpc[i] = "done" =>
                  /\ job[i].status = "failed"
                  /\ job[i].error.kind \in {"Unsupported program", "OSError"}
                  /\ job[i].error.codes = {}
                  /\ decCount[i] = 1

\* A job of an unknown program has ended with the error that names it.
C17_Witness ==
    \E i \in Ids :
        /\ Unsupported(i)
        /\ wpc[i] = "done"
        /\ job[i].error.kind = "Unsupported program"

\* job_id was registered and queued, and deleted before it was admitted.
DeletedWhileQueued(job_id) ==
    /\ InList(appendOrder, job_id)
    /\ job_id \notin jobs
    /\ ~InList(admitOrder, job_id)

\* C18: a delete of a job that is still in job_queue removes it from jobs and
\* from job_queue in one step, and the job is never admitted afterwards: it
\* is never in job_queue again, never popped, and no run_job starts for it.
C18_DeletedQueuedJobNeverAdmitted ==
    /\ [][\A i \in Ids :
            (i \in jobs /\ InList(job_queue, i) /\ i \notin jobs') =>
                ~InList(job_queue', i)]_vars
    /\ [](\A i \in Ids :
            DeletedWhileQueued(i) => ~InList(job_queue, i) /\ wpc[i] = "none")
    /\ [][\A i \in Ids : DeletedWhileQueued(i) => DeletedWhileQueued(i)']_vars

\* A job was deleted while it waited in the queue behind a running job, and
\* that job's thread has ended since (its process_queue call found no one).
C18_Witness ==
    \E i, j \in Ids :
        /\ i # j
        /\ DeletedWhileQueued(i)
        /\ cpc[i] = "returned"
        /\ wpc[j] = "done"
        /\ Position(appendOrder, j) < Position(appendOrder, i)

\* This step is the process_queue call of a thread other than the run_job
\* thread of job_id: of a submit_job, or of another job's finally clause.
OtherAdmissionDecision(job_id) ==
    \/ \E j \in Ids : cpc[j] = "dispatch" /\ cpc'[j] = "returned"
    \/ \E j \in Ids \ {job_id} : wpc[j] = "finally_dispatch" /\ wpc'[j] = "done"

\* C19: on every terminal transition the decrement of running_jobs and the
\* next admission decision are one critical section: while a run_job thread
\* is between its decrement and its own process_queue call, no other
\* thread's process_queue is evaluated.
C19_DecrementAndAdmissionTogether ==
    [][\A i \in Ids :
          wpc[i] = "finally_dispatch" => ~OtherAdmissionDecision(i)]_vars

\* This step is a call of process_queue: that of a submit_job, or that of
\* the finally clause of a run_job.
ProcessQueueCall ==
    \/ \E j \in Ids : cpc[j] = "dispatch" /\ cpc'[j] = "returned"
    \/ \E j \in Ids : wpc[j] = "finally_dispatch" /\ wpc'[j] = "done"

\* The ids for which this step starts a run_job thread.
ThreadsStarted == {i \in Ids : wpc[i] = "none" /\ wpc'[i] = "lookup"}

\* C20: a call of process_queue with running_jobs >= max_concurrent_jobs or
\* an empty job_queue changes nothing and starts no thread; any other call
\* does exactly one admission: it removes exactly the head of job_queue,
\* adds exactly 1 to running_jobs and starts exactly one run_job, for that id.
C20_ProcessQueueFrame ==
    [][ProcessQueueCall =>
          IF running_jobs >= max_concurrent_jobs \/ job_queue = <<>>
          THEN /\ UNCHANGED <<jobs, job_queue, running_jobs>>
               /\ ThreadsStarted = {}
          ELSE /\ job_queue' = Tail(job_queue)
               /\ running_jobs' = running_jobs + 1
               /\ ThreadsStarted = {Head(job_queue)}
               /\ UNCHANGED jobs]_vars

\* A submit_job has returned from a process_queue call that found the
\* ceiling reached (its job still waits), after a call that admitted a job.
C20_Witness ==
    \E j \in Ids :
        /\ cpc[j] = "returned"
        /\ InList(job_queue, j)
        /\ running_jobs = max_concurrent_jobs
        /\ admitOrder # <<>>

\* C21: an I/O error during artifact collection does not fail the job: a job
\* whose subprocess exited with code 0 and whose streams were persisted ends
\* 'completed', whichever step of collect_output_files raised (no delete
\* having been served).
C21_CollectionErrorKeepsCompleted ==
    \A i \in Ids :
        (Exited(i) /\ result[i].returncode = 0 /\ result[i].persisted
            /\ deletes = 0 /\ wpc[i] = "done") =>
            job[i].status = "completed"

\* run_job of job_id has persisted the captured streams of an ORCA subprocess
\* that returned (no write raised) and has not begun to collect.
StreamsPersisted(job_id) ==
    /\ job[job_id].program = "orca"
    /\ Exited(job_id)
    /\ result[job_id].persisted
    /\ wpc[job_id] \in {"set_status", "set_error", "collect_begin"}

\* C22: for an ORCA job each stream is persisted on its own, in both
\* managers: before collection runs, '<job_id>.err' is in the staging area
\* whenever stderr was non-empty and '<job_id>.out' whenever stdout was.
C22_StreamsPersistedIndependently ==
    \A i \in Ids :
        StreamsPersisted(i) =>
            /\ result[i].stderr => "err" \in staged[i]
            /\ result[i].stdout => "out" \in staged[i]

HasThread(job_id) == wpc[job_id] # "none"

\* C24: in every reachable state job_queue holds no id twice, every id in
\* job_queue is a key of jobs whose dict has status 'queued', and no id in
\* job_queue has a run_job thread.
C24_QueueWellFormed ==
    /\ \A k, m \in 1..Len(job_queue) : k # m => job_queue[k] # job_queue[m]
    /\ \A k \in 1..Len(job_queue) :
          /\ job_queue[k] \in jobs
          /\ job[job_queue[k]].status = "queued"
          /\ ~HasThread(job_queue[k])

\* A job waits in the queue after a delete was served for a job that was
\* running, whose subprocess still runs.
C24_Witness ==
    /\ job_queue # <<>>
    /\ deletes = 1
    /\ \E i \in Ids : i \notin jobs /\ wpc[i] = "subprocess"

\* No submit_job call and no finally clause of a run_job stands between the
\* release of the lock and its process_queue call.
NoDispatchPending ==
    \A i \in Ids : cpc[i] # "dispatch" /\ wpc[i] # "finally_dispatch"

\* C25: work conservation: in every state in which no submit_job and no
\* finally clause is between its lock release and its process_queue call, a
\* non-empty job_queue implies running_jobs = max_concurrent_jobs.
C25_WorkConservation ==
    (NoDispatchPending /\ job_queue # <<>>) => running_jobs = max_concurrent_jobs

\* A job waits, its submit_job returned, while another job's subprocess runs
\* and no process_queue call is due.
C25_Witness ==
    /\ NoDispatchPending
    /\ \E i, j \in Ids :
          /\ InList(job_queue, i) /\ Returned(i)
          /\ wpc[j] = "subprocess"

\* The run_job threads that are alive: started, and neither returned nor
\* ended by an exception.
LiveThreads == {i \in Ids : wpc[i] \notin {"none", "crashed", "done"}}

\* C26: every increment of running_jobs is matched by exactly one decrement,
\* whenever a delete is served: running_jobs is never negative and never
\* above the number of live run_job threads, no job is decremented for
\* twice, and a job whose thread has ended was decremented for once.
C26_IncrementsMatched ==
    /\ running_jobs >= 0
    /\ running_jobs <= Cardinality(LiveThreads)
    /\ \A i \in Ids :
          /\ decCount[i] <= 1
          /\ (HasThread(i) /\ i \notin LiveThreads) => decCount[i] = 1

\* C27: in every health snapshot running_jobs + queued_jobs <= total_jobs:
\* every job counted as running or queued is still in the registry, after
\* any sequence of submit, admission, completion and delete.
C27_HealthCountsWithinTotal ==
    health.pc = "built" =>
        Reported.running_jobs + Reported.queued_jobs <= Reported.total_jobs

\* What the status query and the file-list query answer as the output_files
\* of a registered job: the list of its dict.
FilesReply(job_id) == job[job_id].output_files

\* C28: once a status query can observe 'completed' for a job, the job's
\* output_files, as the status and file-list queries return it, never
\* changes again.
C28_OutputFilesFinalOnceCompleted ==
    [][\A i \in Ids :
          (StatusReply(i) = "completed" /\ i \in jobs') =>
              FilesReply(i)' = FilesReply(i)]_vars

====
